---- MODULE Spec2Model ----
(***************************************************************************)
(* Session lifecycle of pyrh: the encrypted token cache                    *)
(* (pyrh/models/login.py), the verification workflow engine in its two     *)
(* implementations (pyrh/models/workflow.py, pyrh/models/sherrif.py) and   *)
(* the session manager's login that drives both.                           *)
(***************************************************************************)
EXTENDS Integers, Sequences, FiniteSets, TLC

VARIABLES
    impl,            \* which workflow implementation runs: "workflow" | "sherrif"
    wfPc,            \* position of the workflow engine
    wfErr,           \* the exception that left the workflow ("none" while running)
    elapsed,         \* time.time() - start_time, in seconds
    retry_attempts,  \* retry budget of the workflow-status phase
    approvalSeen,    \* a 'continue' POST response carried workflow_status_approved
    nContinue,       \* number of 'continue' POSTs issued
    lastRes,         \* the request the workflow made last and what came back
    inquiries,       \* what the inquiry views so far showed: "none" | "no_challenge" | "mixed"
    agree,           \* the other implementation, given the same inputs, made the same steps
    now,             \* time.time() of the cache, in ticks of 1/TicksPerSec second
    file,            \* content of LOGIN_FILE
    savePc,          \* position of a running save_existing_oauth: "idle" | "opened"
    saveBuf,         \* the encrypted record a running save is about to dump
    saveCall,        \* the most recent call of save_existing_oauth and how far it got
    loadBy,          \* username and password of the most recent load_existing_oauth
    loadRes,         \* what the most recent load_existing_oauth returned or raised
    lastOp,          \* the cache operation that made the last step
    account,         \* username and password of the session manager
    smPc,            \* position of the session manager's login()
    smErr,           \* the condition login() failed with ("none" otherwise)
    oauth,           \* the session manager's in-memory credential
    nLoginReq,       \* number of login requests issued by this login()
    lastResp,        \* the most recent login response
    lastRefresh      \* the most recent refresh response

wfVars ==
    <<impl, wfPc, wfErr, elapsed, retry_attempts, approvalSeen, nContinue, lastRes,
      inquiries, agree>>

cacheVars == <<now, file, savePc, saveBuf, saveCall, loadBy, loadRes, lastOp>>

smVars == <<account, smPc, smErr, oauth, nLoginReq, lastResp, lastRefresh>>

vars == <<wfVars, cacheVars, smVars>>

(***************************************************************************)
(* Bounds and program constants                                            *)
(***************************************************************************)
\* the clock of a workflow saturates here; only comparisons with Deadline are made
MaxElapsed == 160

Deadline == 120
SleepSecs == 5
RetryBudget == 5
PostTimeout == 16

Min(a, b) == IF a < b THEN a ELSE b

Sat(t) == Min(t, MaxElapsed)

\* how long one transport call may take, in seconds: it returns at once or
\* just before the socket timeout
Latencies == {0, PostTimeout - 1}

(***************************************************************************)
(* Transport: what session.post / session.get can do, and what the         *)
(* request_post / request_get helpers make of it                           *)
(***************************************************************************)
NoBody == [kind |-> "none"]

Returned(v) == [raised |-> FALSE, exc |-> "none", val |-> v]
Raised(e) == [raised |-> TRUE, exc |-> e, val |-> NoBody]

\* outcome kinds of session.post: a decoded body, a status code outside the
\* accepted list, a requests.RequestException (timeout, connection, bad JSON),
\* any other exception
PostKinds == {"ok", "status", "reqexc", "otherexc"}

\* outcome kinds of session.get: a decoded body, an HTTP error status
\* (raise_for_status), another requests.RequestException
GetKinds == {"ok", "httperror", "reqexc"}

request_post(im, kind, body) ==
    CASE kind = "ok" -> Returned(body)
      [] kind = "status" -> Returned(NoBody)
      [] kind = "reqexc" -> Returned(NoBody)
      [] OTHER -> IF im = "sherrif" THEN Returned(NoBody) ELSE Raised("Exception")

request_get(im, kind, body) ==
    CASE kind = "ok" -> Returned(body)
      [] kind = "httperror" -> Returned(NoBody)
      [] OTHER -> Raised("RequestException")

\* the helpers of the two implementations make the same of a transport outcome
SamePost(kind, body) ==
    request_post("workflow", kind, body) = request_post("sherrif", kind, body)
SameGet(kind, body) ==
    request_get("workflow", kind, body) = request_get("sherrif", kind, body)

(***************************************************************************)
(* Response bodies                                                         *)
(***************************************************************************)
\* machine registration: a mapping with or without "id"
MachineBodies == {[kind |-> "dict", id |-> i] : i \in {"present", "absent"}}

\* inquiry view: {} , a mapping without a challenge, or one with
\* context.sheriff_challenge
ChallengeTypes == {"sms", "email", "prompt"}
ChallengeStatuses == {"issued", "pending", "validated", "rejected"}
InquiryBodies ==
    {[kind |-> "empty", ctype |-> "none", cstatus |-> "none"],
     [kind |-> "dict", ctype |-> "none", cstatus |-> "none"]}
    \cup {[kind |-> "dict", ctype |-> t, cstatus |-> s] :
              t \in ChallengeTypes, s \in ChallengeStatuses}

\* prompt status: {} or a mapping with "challenge_status"
PromptBodies ==
    {[kind |-> "empty", status |-> "none"]}
    \cup {[kind |-> "dict", status |-> s] : s \in {"validated", "pending"}}

\* challenge response (code submission): a mapping with or without a "status"
RespondBodies == {[kind |-> "dict", status |-> s] : s \in {"validated", "failed", "none"}}

\* 'continue' POST: {} or a mapping with optional type_context.result and
\* optional verification_workflow.workflow_status
Approved == "workflow_status_approved"
Pending == "workflow_status_internal_pending"
ContinueBodies ==
    {[kind |-> "empty", tc |-> "absent", vw |-> "absent"]}
    \cup {[kind |-> "dict", tc |-> t, vw |-> w] :
              t \in {"absent", Approved, "other"},
              w \in {"absent", Approved, Pending, "other"}}

CarriesApproval(b) == b.kind = "dict" /\ (b.tc = Approved \/ b.vw = Approved)

\* what came back from a request, as the caller of the engine would describe it
NoRes == <<"none", "none">>

ClassRegister(r) ==
    IF r.raised THEN "raised"
    ELSE IF r.val = NoBody THEN "nobody"
    ELSE IF r.val.id = "absent" THEN "no_id"
    ELSE "id"

ClassInquiry(r) ==
    IF r.raised THEN "raised"
    ELSE IF r.val = NoBody THEN "nobody"
    ELSE IF r.val.kind = "empty" THEN "empty"
    ELSE IF r.val.ctype = "none" THEN "no_challenge"
    ELSE IF r.val.ctype = "prompt"
         THEN (IF r.val.cstatus = "validated" THEN "prompt_validated" ELSE "prompt_open")
    ELSE IF r.val.cstatus = "validated" THEN "validated"
    ELSE IF r.val.cstatus = "issued" THEN "issued"
    ELSE "unresolved"

ClassSubmit(r) ==
    IF r.raised THEN "raised"
    ELSE IF r.val = NoBody THEN "nobody"
    ELSE IF r.val.status = "validated" THEN "validated"
    ELSE "not_validated"

ClassPrompt(r) ==
    IF r.raised THEN "raised"
    ELSE IF r.val = NoBody THEN "nobody"
    ELSE IF r.val.kind = "empty" THEN "empty"
    ELSE IF r.val.status = "validated" THEN "validated"
    ELSE "not_validated"

ClassContinue(r) ==
    IF r.raised THEN "raised"
    ELSE IF r.val = NoBody THEN "nobody"
    ELSE IF r.val.kind = "empty" THEN "empty"
    ELSE IF CarriesApproval(r.val) THEN "approved"
    ELSE IF r.val.vw = Pending THEN "pending"
    ELSE "other"

\* the inquiry views so far, the one classified last included
NextInquiries(prev, class) ==
    IF class = "no_challenge" /\ prev \in {"none", "no_challenge"} THEN "no_challenge"
    ELSE "mixed"

(***************************************************************************)
(* The token cache: values                                                 *)
(***************************************************************************)
\* the clock of the cache stops here
MaxNow == 7

TicksPerSec == 2
KeyLen == 32

\* int(time.time())
IntTime(t) == t \div TicksPerSec

Rep(ch, n) == [i \in 1..n |-> ch]

\* str[0:n]
Take(str, n) == SubSeq(str, 1, Min(n, Len(str)))

\* identifying material: strings as sequences of characters
\* (username, password): two whose first 32 characters agree, one whose 32
\* characters differ, one shorter than 32 characters
Accounts ==
    {[user |-> Rep("a", 20), pass |-> Rep("x", 12)],
     [user |-> Rep("a", 20), pass |-> Rep("x", 12) \o <<"y">>],
     [user |-> Rep("b", 32), pass |-> Rep("x", 12)],
     [user |-> <<"u", "s", "e", "r">>, pass |-> <<"p", "a", "s", "s">>]}

NoMaterial == [user |-> <<>>, pass |-> <<>>]

\* a credential (OAuth): the fields of data.__dict__
ExpiresIns == {0, 1}
Creds ==
    {[access_token |-> "tokA", refresh_token |-> "refresh", expires_in |-> e] : e \in ExpiresIns}
    \cup {[access_token |-> "tokB", refresh_token |-> "None", expires_in |-> 1]}
NoCred == [access_token |-> "", refresh_token |-> "", expires_in |-> 0]

\* values a decoded record can hold under "login" and "expiry"
LoginDict(c) == [t |-> "dict", cred |-> c]
LoginStr == [t |-> "str", cred |-> NoCred]
LoginMissing == [t |-> "missing", cred |-> NoCred]

ExpInt(n) == [t |-> "int", n |-> n]
ExpStr == [t |-> "str", n |-> 0]
ExpMissing == [t |-> "missing", n |-> 0]

\* datetime.fromtimestamp(expiry).isoformat()
IsoFormat(expiry) == <<"iso", expiry>>

\* the mapping save_existing_oauth builds
LoginData(c, expiry) ==
    [root |-> "dict", login |-> LoginDict(c), expiry |-> ExpInt(expiry),
     expiration_dt |-> IsoFormat(expiry)]

\* str(payload) and ast.literal_eval: the text of a literal evaluates back to
\* the literal, any other text raises
PyStr(payload) == [parse |-> "literal", val |-> payload]
NoText == [parse |-> "none", val |-> LoginData(NoCred, 0)]
literal_eval(text) ==
    IF text.parse = "literal" THEN Returned(text.val) ELSE Raised("SyntaxError")

\* Fernet(key): the key must decode to exactly 32 bytes
FernetKeyOk(key) == Len(key) = KeyLen

encrypt_token(payload, key) ==
    IF FernetKeyOk(key)
    THEN [raised |-> FALSE, exc |-> "none", key |-> key, text |-> PyStr(payload)]
    ELSE [raised |-> TRUE, exc |-> "ValueError", key |-> key, text |-> NoText]

\* content of LOGIN_FILE: absent, empty (as touched on import or truncated by
\* open("wb")), or one pickled token
FileMissing == [kind |-> "missing", key |-> <<>>, text |-> NoText]
FileEmpty == [kind |-> "empty", key |-> <<>>, text |-> NoText]
Pickled(token) == [kind |-> "pickle", key |-> token.key, text |-> token.text]

decrypt_token(f, key) ==
    IF ~FernetKeyOk(key) THEN [raised |-> TRUE, exc |-> "ValueError", text |-> NoText]
    ELSE IF f.key # key THEN [raised |-> TRUE, exc |-> "InvalidToken", text |-> NoText]
    ELSE [raised |-> FALSE, exc |-> "none", text |-> f.text]

\* str(username + password)[0:32]
DeriveKey(u, p) == Take(u \o p, KeyLen)

\* OAuthSchema().load(json_data["login"])
OAuthSchemaLoad(login) == login.cred

(***************************************************************************)
(* The token cache: load_existing_oauth and save_existing_oauth            *)
(***************************************************************************)
ResNone == [kind |-> "none", exc |-> "none", cred |-> NoCred]
ResCred(c) == [kind |-> "cred", exc |-> "none", cred |-> c]
ResRaise(e) == [kind |-> "raise", exc |-> e, cred |-> NoCred]
ResNever == [kind |-> "never", exc |-> "none", cred |-> NoCred]

\* a faulty variant: the expiry of the record is not looked at
ValidateRecordIgnoringExpiry(json_data, t) ==
    IF json_data.root # "dict" THEN ResRaise("InvalidCacheFile")
    ELSE IF json_data.login.t = "missing" THEN ResRaise("InvalidCacheFile")
    ELSE IF json_data.expiry.t = "missing" THEN ResRaise("InvalidCacheFile")
    ELSE IF json_data.expiry.t # "int" THEN ResRaise("InvalidCacheFile")
    ELSE IF json_data.login.t # "dict" THEN ResRaise("InvalidCacheFile")
    ELSE ResCred(OAuthSchemaLoad(json_data.login))

\* the assertions and the expiry test on the evaluated record
ValidateRecord(json_data, t) ==
    IF json_data.root # "dict" THEN ResRaise("InvalidCacheFile")
    ELSE IF json_data.login.t = "missing" THEN ResRaise("InvalidCacheFile")
    ELSE IF json_data.expiry.t = "missing" THEN ResRaise("InvalidCacheFile")
    ELSE IF json_data.expiry.t # "int" THEN ResRaise("InvalidCacheFile")
    ELSE IF json_data.expiry.n < IntTime(t) THEN ResNone
    ELSE IF json_data.login.t # "dict" THEN ResRaise("InvalidCacheFile")
    ELSE ResCred(OAuthSchemaLoad(json_data.login))

\* a faulty variant: the cache is never found to hold anything
load_existing_oauth_absent(f, u, p, t) == ResNone

load_existing_oauth(f, u, p, t) ==
    IF f.kind = "missing" \/ f.kind = "empty" THEN ResNone
    ELSE LET d == decrypt_token(f, DeriveKey(u, p)) IN
         IF d.raised THEN ResRaise(d.exc)
         ELSE LET e == literal_eval(d.text) IN
              IF e.raised THEN ResRaise(e.exc)
              ELSE ValidateRecord(e.val, t)

\* expiry = int(time.time()) + data.expires_in
ComputeExpiry(t, c) == IntTime(t) + c.expires_in

NoSave == [status |-> "none", user |-> <<>>, pass |-> <<>>, cred |-> NoCred, at |-> 0]
NoToken == [raised |-> FALSE, exc |-> "none", key |-> <<>>, text |-> NoText]

\* loadBy and loadRes describe the load that made the last step, if any
ForgetLoad == loadBy' = NoMaterial /\ loadRes' = ResNever

\* save_existing_oauth up to LOGIN_FILE.open("wb"): the record is built and
\* encrypted, the file is truncated
SaveBeginAs(c, u, p) ==
    /\ savePc = "idle"
    /\ LET token == encrypt_token(LoginData(c, ComputeExpiry(now, c)), DeriveKey(u, p)) IN
       IF token.raised
       THEN /\ saveCall' = [status |-> "raised", user |-> u, pass |-> p, cred |-> c, at |-> now]
            /\ UNCHANGED <<file, savePc, saveBuf>>
       ELSE /\ saveCall' = [status |-> "opened", user |-> u, pass |-> p, cred |-> c, at |-> now]
            /\ file' = FileEmpty
            /\ savePc' = "opened"
            /\ saveBuf' = token
    /\ lastOp' = "save_begin"
    /\ ForgetLoad
    /\ UNCHANGED now
    /\ UNCHANGED <<wfVars, smVars>>

SaveBegin == \E c \in Creds, a \in Accounts : SaveBeginAs(c, a.user, a.pass)

\* pickle.dump(encrypted, file); file.flush()
SaveDump ==
    /\ savePc = "opened"
    /\ file' = Pickled(saveBuf)
    /\ savePc' = "idle"
    /\ saveBuf' = NoToken
    /\ saveCall' = [saveCall EXCEPT !.status = "done"]
    /\ lastOp' = "save_dump"
    /\ ForgetLoad
    /\ UNCHANGED now
    /\ UNCHANGED <<wfVars, smVars>>

\* the process stops between open("wb") and the dump
SaveInterrupt ==
    /\ savePc = "opened"
    /\ savePc' = "idle"
    /\ saveBuf' = NoToken
    /\ saveCall' = [saveCall EXCEPT !.status = "interrupted"]
    /\ lastOp' = "save_interrupt"
    /\ ForgetLoad
    /\ UNCHANGED <<now, file>>
    /\ UNCHANGED <<wfVars, smVars>>

LoadAs(u, p) ==
    /\ loadRes' = load_existing_oauth(file, u, p, now)
    /\ loadBy' = [user |-> u, pass |-> p]
    /\ lastOp' = "load"
    /\ UNCHANGED <<now, file, savePc, saveBuf, saveCall>>
    /\ UNCHANGED <<wfVars, smVars>>

Load == \E a \in Accounts : LoadAs(a.user, a.pass)

Tick ==
    /\ now < MaxNow
    /\ now' = now + 1
    /\ lastOp' = "tick"
    /\ ForgetLoad
    /\ UNCHANGED <<file, savePc, saveBuf, saveCall>>
    /\ UNCHANGED <<wfVars, smVars>>

\* records that did not come from save_existing_oauth: another root, missing
\* keys, other types, an unparsable text
ForeignPayloads ==
    {[root |-> r, login |-> l, expiry |-> e, expiration_dt |-> IsoFormat(0)] :
        r \in {"dict"},
        l \in {LoginDict([access_token |-> "tokA", refresh_token |-> "None", expires_in |-> 1]),
               LoginStr, LoginMissing},
        e \in {ExpInt(1), ExpInt(3), ExpStr, ExpMissing}}
    \cup {[root |-> "list", login |-> LoginMissing, expiry |-> ExpMissing,
           expiration_dt |-> IsoFormat(0)]}
ForeignTexts ==
    {PyStr(pl) : pl \in ForeignPayloads} \cup {[parse |-> "garbage", val |-> LoginData(NoCred, 0)]}

\* the file is written by something else than save_existing_oauth
ExternalWrite ==
    /\ savePc = "idle"
    /\ \E text \in ForeignTexts, a \in Accounts :
          /\ FernetKeyOk(DeriveKey(a.user, a.pass))
          /\ file' = [kind |-> "pickle", key |-> DeriveKey(a.user, a.pass), text |-> text]
    /\ saveCall' = NoSave
    /\ lastOp' = "external_write"
    /\ ForgetLoad
    /\ UNCHANGED <<now, savePc, saveBuf>>
    /\ UNCHANGED <<wfVars, smVars>>

\* the file is removed
ExternalRemove ==
    /\ savePc = "idle"
    /\ file.kind # "missing"
    /\ file' = FileMissing
    /\ saveCall' = NoSave
    /\ lastOp' = "external_remove"
    /\ ForgetLoad
    /\ UNCHANGED <<now, savePc, saveBuf>>
    /\ UNCHANGED <<wfVars, smVars>>

\* LOGIN_FILE.touch(exist_ok=True) on import
InitCache ==
    /\ now = TicksPerSec
    /\ file = FileEmpty
    /\ savePc = "idle"
    /\ saveBuf = NoToken
    /\ saveCall = NoSave
    /\ loadBy = NoMaterial
    /\ loadRes = ResNever
    /\ lastOp = "init"

(***************************************************************************)
(* The session manager: values                                             *)
(***************************************************************************)
\* the accounts a session manager is constructed for
SessionAccounts ==
    {[user |-> Rep("a", 20), pass |-> Rep("x", 12)],
     [user |-> <<"u", "s", "e", "r">>, pass |-> <<"p", "a", "s", "s">>]}

\* the token sets the service issues
TokenSets ==
    {[access_token |-> "tokA", refresh_token |-> "refresh", expires_in |-> 0],
     [access_token |-> "tokB", refresh_token |-> "None", expires_in |-> 1]}

\* bodies of a login response: a token set, a verification workflow with an
\* id, an error body, an empty body, verification_workflow set to null
LoginBodies ==
    {[kind |-> "tokens", cred |-> c] : c \in TokenSets}
    \cup {[kind |-> k, cred |-> NoCred] : k \in {"workflow", "error", "empty", "vw_null"}}
NoResp == [kind |-> "none", cred |-> NoCred]

\* what login() reads off a response
HasTokens(body) == body.kind = "tokens"

\* a faulty variant: a null verification_workflow passes for a workflow
HasWorkflowIdOrNull(body) == body.kind \in {"workflow", "vw_null"}

HasWorkflowId(body) == body.kind = "workflow"

(***************************************************************************)
(* The verification workflow engine                                        *)
(***************************************************************************)
WfRunning == {"register", "inquiry_loop", "prompt_wait", "status_loop"}
WfTerminal == {"approved", "timed_out", "error"}

\* a faulty variant: the timeout is taken for an approval, as its message says
FailAssumingApproved(exc) ==
    /\ wfPc' = (IF exc = "TimeoutError" THEN "approved" ELSE "error")
    /\ wfErr' = exc

\* raise: TimeoutError ends the workflow as timed out, anything else as an error
Fail(exc) ==
    /\ wfPc' = (IF exc = "TimeoutError" THEN "timed_out" ELSE "error")
    /\ wfErr' = exc

\* machine registration and start_time = time.time()
Register ==
    /\ wfPc = "register"
    /\ \E kind \in PostKinds, body \in MachineBodies :
          LET r == request_post(impl, kind, body) IN
          /\ IF r.raised THEN Fail(r.exc)
             ELSE IF r.val = NoBody THEN Fail("TypeError")
             ELSE IF r.val.id = "absent" THEN Fail("KeyError")
             ELSE wfPc' = "inquiry_loop" /\ wfErr' = wfErr
          /\ elapsed' = 0
          /\ lastRes' = <<"register", ClassRegister(r)>>
          /\ agree' = (agree /\ SamePost(kind, body))
    /\ UNCHANGED <<impl, retry_attempts, approvalSeen, nContinue, inquiries>>
    /\ UNCHANGED <<cacheVars, smVars>>

\* the verification codes a user may type
Codes == {"123456", " 12 34"}

\* challenge_payload = {"response": user_code}
ChallengePayload(user_code) == [response |-> user_code]

\* a faulty variant: any answer to the submission passes for a validation
SubmissionAnswered(resp) == TRUE

\* challenge_response.get("status") == "validated"
SubmissionValidated(resp) == resp.status = "validated"

\* one iteration of the outer poll loop, the code submission included
InquiryPoll ==
    /\ wfPc = "inquiry_loop"
    /\ elapsed < Deadline
    /\ \E kind \in GetKinds, body \in InquiryBodies, lat \in Latencies :
          LET r == request_get(impl, kind, body)
              t == Sat(elapsed + SleepSecs + lat) IN
          /\ inquiries' = NextInquiries(inquiries, ClassInquiry(r))
          /\ IF ClassInquiry(r) = "issued" THEN TRUE
             ELSE /\ lastRes' = <<"inquiry", ClassInquiry(r)>>
                  /\ agree' = (agree /\ SameGet(kind, body))
          /\ IF r.raised THEN Fail(r.exc) /\ elapsed' = t
             ELSE IF r.val = NoBody \/ r.val.kind = "empty"
                  THEN wfPc' = wfPc /\ wfErr' = wfErr /\ elapsed' = t
             ELSE IF r.val.ctype = "none"
                  THEN wfPc' = wfPc /\ wfErr' = wfErr /\ elapsed' = t
             ELSE IF r.val.ctype = "prompt"
                  THEN wfPc' = "prompt_wait" /\ wfErr' = wfErr /\ elapsed' = t
             ELSE IF r.val.cstatus = "validated"
                  THEN wfPc' = "status_loop" /\ wfErr' = wfErr /\ elapsed' = t
             ELSE IF r.val.cstatus = "issued"
                  THEN \E user_code \in Codes, kind2 \in PostKinds, body2 \in RespondBodies,
                          lat2 \in Latencies :
                          LET r2 == request_post(impl, kind2, body2) IN
                          /\ elapsed' = Sat(t + lat2)
                          /\ lastRes' = <<"submit", ClassSubmit(r2), user_code,
                                          ChallengePayload(user_code).response>>
                          /\ agree' = (agree /\ SameGet(kind, body) /\ SamePost(kind2, body2))
                          /\ IF r2.raised THEN Fail(r2.exc)
                             ELSE IF r2.val = NoBody THEN Fail("AttributeError")
                             ELSE IF SubmissionValidated(r2.val)
                                  THEN wfPc' = "status_loop" /\ wfErr' = wfErr
                             ELSE wfPc' = wfPc /\ wfErr' = wfErr
             ELSE wfPc' = wfPc /\ wfErr' = wfErr /\ elapsed' = t
    /\ UNCHANGED <<impl, retry_attempts, approvalSeen, nContinue>>
    /\ UNCHANGED <<cacheVars, smVars>>

\* a faulty variant: the status phase is given a deadline of its own
InquiryExitRestartingClock ==
    /\ wfPc = "inquiry_loop"
    /\ elapsed >= Deadline
    /\ wfPc' = "status_loop"
    /\ elapsed' = 0
    /\ UNCHANGED <<impl, wfErr, retry_attempts, approvalSeen, nContinue, lastRes, inquiries, agree>>
    /\ UNCHANGED <<cacheVars, smVars>>

\* the outer poll loop runs out of time and falls through to the status phase
InquiryExit ==
    /\ wfPc = "inquiry_loop"
    /\ elapsed >= Deadline
    /\ wfPc' = "status_loop"
    /\ UNCHANGED <<impl, wfErr, elapsed, retry_attempts, approvalSeen, nContinue, lastRes,
                inquiries, agree>>
    /\ UNCHANGED <<cacheVars, smVars>>

\* one iteration of the prompt wait (while True)
PromptPoll ==
    /\ wfPc = "prompt_wait"
    /\ \E kind \in GetKinds, body \in PromptBodies, lat \in Latencies :
          LET r == request_get(impl, kind, body) IN
          /\ elapsed' = Sat(elapsed + SleepSecs + lat)
          /\ lastRes' = <<"prompt", ClassPrompt(r)>>
          /\ agree' = (agree /\ SameGet(kind, body))
          /\ IF r.raised THEN Fail(r.exc)
             ELSE IF r.val = NoBody THEN Fail("TypeError")
             ELSE IF r.val.kind = "empty" THEN Fail("KeyError")
             ELSE IF r.val.status = "validated"
                  THEN wfPc' = "status_loop" /\ wfErr' = wfErr
             ELSE wfPc' = wfPc /\ wfErr' = wfErr
    /\ UNCHANGED <<impl, retry_attempts, approvalSeen, nContinue, inquiries>>
    /\ UNCHANGED <<cacheVars, smVars>>

\* a faulty variant: the budget is found used up one response late
ConsumeRetryLate ==
    /\ retry_attempts' = retry_attempts - 1
    /\ IF retry_attempts - 1 < 0 THEN Fail("TimeoutError")
       ELSE wfPc' = wfPc /\ wfErr' = wfErr

\* retry_attempts -= 1; if retry_attempts == 0: raise TimeoutError
ConsumeRetry ==
    /\ retry_attempts' = retry_attempts - 1
    /\ IF retry_attempts - 1 = 0 THEN Fail("TimeoutError")
       ELSE wfPc' = wfPc /\ wfErr' = wfErr

\* a faulty variant: the nested status is looked at only when the response
\* has no type_context
NestedApprovedNoContext(b) == b.vw = Approved /\ b.tc = "absent"

\* workflow_status == "workflow_status_approved"
NestedApproved(b) == b.vw = Approved

\* a faulty variant: a pending status is counted against the budget
OnPendingConsuming == ConsumeRetry

\* workflow_status_internal_pending: print and go round the loop again
OnPending == wfPc' = wfPc /\ wfErr' = wfErr /\ retry_attempts' = retry_attempts

\* one iteration of the workflow-status loop
StatusPoll ==
    /\ wfPc = "status_loop"
    /\ elapsed < Deadline
    /\ nContinue' = nContinue + 1
    /\ \E kind \in PostKinds, body \in ContinueBodies, lat \in Latencies :
          LET r == request_post(impl, kind, body)
              t == elapsed + lat IN
          /\ approvalSeen' = (approvalSeen \/ (~r.raised /\ r.val # NoBody /\ CarriesApproval(r.val)))
          /\ lastRes' = IF ClassContinue(r) = "approved"
                        THEN <<"continue", "approved", r.val.tc, r.val.vw>>
                        ELSE <<"continue", ClassContinue(r)>>
          /\ agree' = (agree /\ SamePost(kind, body))
          /\ IF r.raised
             THEN Fail(r.exc) /\ elapsed' = Sat(t) /\ retry_attempts' = retry_attempts
             ELSE IF r.val = NoBody
             THEN Fail("TypeError") /\ elapsed' = Sat(t) /\ retry_attempts' = retry_attempts
             ELSE IF r.val.tc = Approved
             THEN /\ wfPc' = "approved" /\ wfErr' = wfErr
                  /\ elapsed' = Sat(t) /\ retry_attempts' = retry_attempts
             ELSE IF r.val.kind = "empty"
             THEN elapsed' = Sat(t + SleepSecs + SleepSecs) /\ ConsumeRetry
             ELSE /\ elapsed' = Sat(t + SleepSecs)
                  /\ IF NestedApproved(r.val)
                     THEN wfPc' = "approved" /\ wfErr' = wfErr /\ retry_attempts' = retry_attempts
                     ELSE IF r.val.vw = Pending
                     THEN OnPending
                     ELSE ConsumeRetry
    /\ UNCHANGED <<impl, inquiries>>
    /\ UNCHANGED <<cacheVars, smVars>>

\* a faulty variant: the deadline ends the loop and the function returns
StatusExitReturning ==
    /\ wfPc = "status_loop"
    /\ elapsed >= Deadline
    /\ wfPc' = "approved"
    /\ UNCHANGED <<impl, wfErr, elapsed, retry_attempts, approvalSeen, nContinue, lastRes,
                inquiries, agree>>
    /\ UNCHANGED <<cacheVars, smVars>>

\* the deadline ends the workflow-status loop
StatusExit ==
    /\ wfPc = "status_loop"
    /\ elapsed >= Deadline
    /\ Fail("TimeoutError")
    /\ UNCHANGED <<impl, elapsed, retry_attempts, approvalSeen, nContinue, lastRes,
                inquiries, agree>>
    /\ UNCHANGED <<cacheVars, smVars>>

\* a session manager that has not been asked for anything yet
InitSessionOf(a) ==
    /\ account = a
    /\ smPc = "idle"
    /\ smErr = "none"
    /\ oauth = NoCred
    /\ nLoginReq = 0
    /\ lastResp = NoResp
    /\ lastRefresh = NoResp

InitWorkflowAt(pc) ==
    /\ impl \in {"workflow", "sherrif"}
    /\ wfPc = pc
    /\ wfErr = "none"
    /\ elapsed = 0
    /\ retry_attempts = RetryBudget
    /\ approvalSeen = FALSE
    /\ nContinue = 0
    /\ lastRes = NoRes
    /\ inquiries = "none"
    /\ agree = TRUE

InitWorkflow == InitWorkflowAt("register") /\ InitCache /\ InitSessionOf(NoMaterial)

\* verify_workflow or Sherrif.validate_sherrif_id called on its own

NextWorkflow ==
    \/ Register
    \/ InquiryPoll
    \/ InquiryExit
    \/ PromptPoll
    \/ StatusPoll
    \/ StatusExit

SpecWorkflow == InitWorkflow /\ [][NextWorkflow]_vars

(***************************************************************************)
(* The session manager: login()                                            *)
(***************************************************************************)
\* save_existing_oauth as the session manager calls it, from the first line
\* to the flush
Persist(c) ==
    /\ LET token == encrypt_token(LoginData(c, ComputeExpiry(now, c)),
                                  DeriveKey(account.user, account.pass)) IN
       IF token.raised
       THEN /\ saveCall' = [status |-> "raised", user |-> account.user, pass |-> account.pass,
                            cred |-> c, at |-> now]
            /\ file' = file
       ELSE /\ saveCall' = [status |-> "done", user |-> account.user, pass |-> account.pass,
                            cred |-> c, at |-> now]
            /\ file' = Pickled(token)
    /\ lastOp' = "save_dump"
    /\ ForgetLoad
    /\ UNCHANGED <<now, savePc, saveBuf>>

PersistRaises == ~FernetKeyOk(DeriveKey(account.user, account.pass))

\* a token set arrived: construct the credential, persist it, return it
AcceptTokens(c) ==
    /\ oauth' = c
    /\ Persist(c)
    /\ IF PersistRaises
       THEN smPc' = "failed" /\ smErr' = "ValueError"
       ELSE smPc' = "done" /\ smErr' = smErr

\* login(): look in the cache, and send the login request if it holds nothing
LoginBegin ==
    /\ smPc = "idle"
    /\ savePc = "idle"
    /\ LET cached == load_existing_oauth(file, account.user, account.pass, now) IN
       /\ loadRes' = cached
       /\ loadBy' = account
       /\ lastOp' = "load"
       /\ CASE cached.kind = "cred" ->
                  /\ oauth' = cached.cred
                  /\ smPc' = "done"
                  /\ UNCHANGED <<smErr, nLoginReq>>
            [] cached.kind = "raise" ->
                  /\ smPc' = "failed"
                  /\ smErr' = cached.exc
                  /\ UNCHANGED <<oauth, nLoginReq>>
            [] OTHER ->
                  /\ smPc' = "login_sent"
                  /\ nLoginReq' = nLoginReq + 1
                  /\ UNCHANGED <<oauth, smErr>>
    /\ UNCHANGED <<now, file, savePc, saveBuf, saveCall, account, lastResp, lastRefresh>>
    /\ UNCHANGED wfVars

\* the response to the login request
LoginResponse ==
    /\ smPc = "login_sent"
    /\ \E body \in LoginBodies :
          /\ lastResp' = body
          /\ CASE HasTokens(body) ->
                     /\ AcceptTokens(body.cred)
                     /\ UNCHANGED wfVars
               [] HasWorkflowId(body) ->
                     /\ smPc' = "in_workflow"
                     /\ wfPc' = "register"
                     /\ UNCHANGED <<impl, wfErr, elapsed, retry_attempts, approvalSeen,
                                   nContinue, lastRes, inquiries, agree>>
                     /\ UNCHANGED <<smErr, oauth>>
                     /\ UNCHANGED cacheVars
               [] OTHER ->
                     /\ smPc' = "failed"
                     /\ smErr' = "AuthenticationError: no verification workflow found"
                     /\ UNCHANGED oauth
                     /\ UNCHANGED wfVars
                     /\ UNCHANGED cacheVars
    /\ UNCHANGED <<account, nLoginReq, lastRefresh>>

\* the verification workflow runs inside login()
InWorkflow == smPc = "in_workflow"

\* the verification workflow returned or raised: re-issue the login request,
\* or fail
LoginWorkflowEnd ==
    /\ smPc = "in_workflow"
    /\ wfPc \in WfTerminal
    /\ IF wfPc = "approved"
       THEN /\ smPc' = "relogin_sent"
            /\ nLoginReq' = nLoginReq + 1
            /\ smErr' = smErr
       ELSE /\ smPc' = "failed"
            /\ smErr' = "AuthenticationError: verification workflow failed"
            /\ nLoginReq' = nLoginReq
    /\ UNCHANGED <<account, oauth, lastResp, lastRefresh>>
    /\ UNCHANGED <<wfVars, cacheVars>>

\* the response to the re-issued login request
ReloginResponse ==
    /\ smPc = "relogin_sent"
    /\ \E body \in LoginBodies :
          /\ lastResp' = body
          /\ IF HasTokens(body)
             THEN AcceptTokens(body.cred)
             ELSE /\ smPc' = "failed"
                  /\ smErr' = "AuthenticationError: no verification workflow found"
                  /\ UNCHANGED oauth
                  /\ UNCHANGED cacheVars
    /\ UNCHANGED <<account, nLoginReq, lastRefresh>>
    /\ UNCHANGED wfVars

(***************************************************************************)
(* The session manager: refresh()                                          *)
(***************************************************************************)
RefreshFailed == "AuthenticationError: failed to refresh token"

\* bodies of a refresh response: a token set, a rejection (invalid_grant,
\* status 400), an empty body
RefreshBodies == {b \in LoginBodies : b.kind \in {"tokens", "error", "empty"}}

\* the caller hands the session manager a credential that holds a refresh token
AdoptCredential ==
    /\ smPc = "idle"
    /\ \E c \in {t \in TokenSets : t.refresh_token # "None"} : oauth' = c
    /\ smPc' = "done"
    /\ lastOp' = "adopt"
    /\ ForgetLoad
    /\ UNCHANGED <<account, smErr, nLoginReq, lastResp, lastRefresh>>
    /\ UNCHANGED <<now, file, savePc, saveBuf, saveCall>>
    /\ UNCHANGED wfVars

\* refresh(): with a credential that holds a refresh token, send the refresh
\* request
RefreshBegin ==
    /\ smPc = "done"
    /\ oauth # NoCred
    /\ oauth.refresh_token # "None"
    /\ smPc' = "refresh_sent"
    /\ UNCHANGED <<account, smErr, oauth, nLoginReq, lastResp, lastRefresh>>
    /\ UNCHANGED <<wfVars, cacheVars>>

\* a faulty variant: a rejected refresh drops the credential it could not renew
RefreshRejectedClearing ==
    /\ smPc' = "failed"
    /\ smErr' = RefreshFailed
    /\ oauth' = NoCred
    /\ UNCHANGED cacheVars

\* the service rejected the refresh: raise, touching nothing
RefreshRejected ==
    /\ smPc' = "failed"
    /\ smErr' = RefreshFailed
    /\ UNCHANGED oauth
    /\ UNCHANGED cacheVars

\* the response to the refresh request
RefreshResponse ==
    /\ smPc = "refresh_sent"
    /\ \E body \in RefreshBodies :
          /\ lastRefresh' = body
          /\ IF HasTokens(body)
             THEN AcceptTokens(body.cred)
             ELSE RefreshRejected
    /\ UNCHANGED <<account, nLoginReq, lastResp>>
    /\ UNCHANGED wfVars

\* the session manager is disposed of and a new one is constructed
NewSession ==
    /\ smPc \in {"done", "failed"}
    /\ smPc' = "idle"
    /\ smErr' = "none"
    /\ oauth' = NoCred
    /\ nLoginReq' = 0
    /\ lastResp' = NoResp
    /\ lastRefresh' = NoResp
    /\ wfPc' = "idle"
    /\ wfErr' = "none"
    /\ elapsed' = 0
    /\ retry_attempts' = RetryBudget
    /\ approvalSeen' = FALSE
    /\ nContinue' = 0
    /\ lastRes' = NoRes
    /\ inquiries' = "none"
    /\ agree' = TRUE
    /\ UNCHANGED <<impl, account>>
    /\ UNCHANGED cacheVars

\* a second passes between two calls
SessionTick ==
    /\ smPc = "idle"
    /\ now + TicksPerSec <= MaxNow
    /\ now' = now + TicksPerSec
    /\ lastOp' = "tick"
    /\ ForgetLoad
    /\ UNCHANGED <<file, savePc, saveBuf, saveCall>>
    /\ UNCHANGED <<wfVars, smVars>>

Init ==
    /\ InitWorkflowAt("idle")
    /\ impl = "workflow"
    /\ InitCache
    /\ \E a \in SessionAccounts : InitSessionOf(a)

Next ==
    \/ LoginBegin
    \/ LoginResponse
    \/ InWorkflow /\ Register
    \/ InWorkflow /\ InquiryPoll
    \/ InWorkflow /\ InquiryExit
    \/ InWorkflow /\ PromptPoll
    \/ InWorkflow /\ StatusPoll
    \/ InWorkflow /\ StatusExit
    \/ LoginWorkflowEnd
    \/ ReloginResponse
    \/ AdoptCredential
    \/ RefreshBegin
    \/ RefreshResponse
    \/ NewSession
    \/ SessionTick

Spec == Init /\ [][Next]_vars

(***************************************************************************)
(* The token cache on its own                                              *)
(***************************************************************************)
InitCacheOnly == InitWorkflowAt("idle") /\ InitCache /\ InitSessionOf(NoMaterial)

NextCache ==
    \/ SaveBegin
    \/ SaveDump
    \/ SaveInterrupt
    \/ Load
    \/ Tick
    \/ ExternalWrite
    \/ ExternalRemove

SpecCache == InitCacheOnly /\ [][NextCache]_vars

(***************************************************************************)
(* Token cache properties                                                  *)
(***************************************************************************)
SavedBy == [user |-> saveCall.user, pass |-> saveCall.pass]
LoadKey == DeriveKey(loadBy.user, loadBy.pass)
JustLoaded == lastOp = "load"

\* the load falls within the lifetime the saved credential announces
WithinLifetime == now <= saveCall.at + saveCall.cred.expires_in * TicksPerSec

\* C3: a save of c under (username, password) followed by a load under the
\* same (username, password) no later than save-time + c.expires_in, with no
\* other write in between, returns c -- for any username and password.
C3_RoundTrip ==
    (/\ JustLoaded
     /\ saveCall.status \in {"done", "raised"}
     /\ loadBy = SavedBy
     /\ WithinLifetime)
    => loadRes = ResCred(saveCall.cred)

\* the round trip of a save that went through (material of 32 characters or more)
RoundTripOfCompletedSave ==
    (/\ JustLoaded
     /\ saveCall.status = "done"
     /\ loadBy = SavedBy
     /\ WithinLifetime)
    => loadRes = ResCred(saveCall.cred)

\* C4: a load of a record whose stored expiry lies before the current time
\* returns None and raises nothing, and so does a load of a missing or empty
\* file; the stored expiry is int(save-time) + expires_in and the load decides
\* by it alone.
C4_ExpiredOrMissingIsAbsent ==
    /\ (JustLoaded /\ file.kind \in {"missing", "empty"}) => loadRes = ResNone
    /\ (/\ JustLoaded
        /\ file.kind = "pickle"
        /\ LoadKey = file.key
        /\ file.text.parse = "literal"
        /\ file.text.val.root = "dict"
        /\ file.text.val.login.t # "missing"
        /\ file.text.val.expiry.t = "int"
        /\ file.text.val.expiry.n < IntTime(now)) => loadRes = ResNone
    /\ (saveCall.status = "done") =>
          /\ file.kind = "pickle"
          /\ file.text.val.expiry = ExpInt(IntTime(saveCall.at) + saveCall.cred.expires_in)
    /\ (JustLoaded /\ saveCall.status = "done" /\ LoadKey = file.key) =>
          IF IntTime(saveCall.at) + saveCall.cred.expires_in < IntTime(now)
          THEN loadRes = ResNone
          ELSE loadRes = ResCred(saveCall.cred)

C4_Witness ==
    /\ JustLoaded
    /\ saveCall.status = "done"
    /\ LoadKey = file.key
    /\ file.text.val.expiry.n < IntTime(now)
    /\ loadRes = ResNone

NonConforming(json_data) ==
    \/ json_data.root # "dict"
    \/ json_data.login.t = "missing"
    \/ json_data.expiry.t = "missing"
    \/ json_data.expiry.t # "int"
    \/ json_data.login.t # "dict"

\* C5: a load of a record that decrypts and parses into a value of the wrong
\* shape (root not a mapping, no "login", no "expiry", expiry not an integer,
\* "login" not a mapping) raises InvalidCacheFile, whatever the other fields
\* hold, an expiry in the past included.
C5_NonConformingIsCorrupt ==
    (/\ JustLoaded
     /\ file.kind = "pickle"
     /\ LoadKey = file.key
     /\ file.text.parse = "literal"
     /\ NonConforming(file.text.val))
    => loadRes = ResRaise("InvalidCacheFile")

\* C6: a load under a (username, password) other than the one of the save
\* that wrote the record ends in InvalidCacheFile.
C6_WrongSecretIsCorrupt ==
    (/\ JustLoaded
     /\ saveCall.status = "done"
     /\ loadBy # SavedBy)
    => loadRes = ResRaise("InvalidCacheFile")

\* C7: a save replaces the record as a whole: once a record is in the file, a
\* save that has opened the file leaves either that record or the new one in
\* it, never an empty file.
C7_AtomicReplace ==
    [][(savePc = "idle" /\ savePc' = "opened" /\ file.kind = "pickle")
          => file' \in {file, Pickled(saveBuf')}]_vars

\* C8: a save under account B leaves the record cached for account A as it is.
C8_AccountsIsolated ==
    [][(/\ saveCall.status = "done"
        /\ file.kind = "pickle"
        /\ lastOp' = "save_begin"
        /\ saveCall'.status = "opened"
        /\ [user |-> saveCall'.user, pass |-> saveCall'.pass] # SavedBy)
          => file' = file]_vars

(***************************************************************************)
(* Verification workflow properties                                        *)
(***************************************************************************)
\* C1: the workflow returns normally only if a 'continue' response carried
\* workflow_status_approved; a run of the workflow-status phase in which no
\* approval appears ends in the timeout condition.
C1_ReturnOnlyOnApproval ==
    /\ wfPc = "approved" => approvalSeen
    /\ (wfPc \in WfTerminal /\ nContinue > 0 /\ ~approvalSeen) => wfPc = "timed_out"

\* the part of C1 that holds: no normal return without an approval
NoReturnWithoutApproval == wfPc = "approved" => approvalSeen

\* C2: the 120-second deadline cuts the prompt wait off: once the deadline has
\* passed the engine does not stay in the prompt wait.
C2_PromptWaitCutOff ==
    [][(wfPc = "prompt_wait" /\ elapsed >= Deadline) => wfPc' # "prompt_wait"]_vars

(***************************************************************************)
(* Session manager properties                                              *)
(***************************************************************************)
NoWorkflowFound == "AuthenticationError: no verification workflow found"

\* C9: login() whose response holds neither tokens nor a usable workflow id
\* (error body, empty body, null verification_workflow) fails with
\* AuthenticationError "no verification workflow found"; the workflow is not
\* invoked and no credential is set or persisted.
C9_NoWorkflowNoTokens ==
    (/\ nLoginReq = 1
     /\ smPc \notin {"idle", "login_sent"}
     /\ lastResp.kind \in {"error", "empty", "vw_null"})
    => /\ smPc = "failed"
       /\ smErr = NoWorkflowFound
       /\ wfPc = "idle"
       /\ oauth = NoCred
       /\ lastOp = "load"

C9_Witness ==
    /\ nLoginReq = 1
    /\ smPc = "failed"
    /\ lastResp.kind = "vw_null"
    /\ smErr = NoWorkflowFound

\* C10: when the first login response carries a workflow id, the workflow
\* runs first, the login request is re-issued only after the workflow has
\* succeeded, and the credential is the token set of the second response, set
\* only after that response (and stays so until a refresh replaces it).
C10_ReloginAfterWorkflow ==
    /\ nLoginReq = 2 => (wfPc = "approved" /\ approvalSeen)
    /\ smPc = "in_workflow" => (nLoginReq = 1 /\ oauth = NoCred)
    /\ smPc = "relogin_sent" => (nLoginReq = 2 /\ oauth = NoCred)
    /\ (wfPc # "idle" /\ oauth # NoCred /\ lastRefresh = NoResp) =>
          /\ nLoginReq = 2
          /\ HasTokens(lastResp)
          /\ oauth = lastResp.cred

C10_Witness ==
    /\ smPc = "done"
    /\ wfPc = "approved"
    /\ nLoginReq = 2
    /\ oauth = lastResp.cred
    /\ oauth.access_token = "tokA"

WorkflowFailed == "AuthenticationError: verification workflow failed"

\* the workflow ended without an approval, the deadline or the retry budget
\* being used up
EndedUnresolved ==
    /\ wfPc \in WfTerminal
    /\ ~approvalSeen
    /\ (retry_attempts = 0 \/ elapsed >= Deadline)

\* C11: login() whose response holds a verification workflow that never
\* resolves (the engine ends by the deadline or by retry exhaustion) raises
\* AuthenticationError: the login is not re-issued, the call does not end as
\* a success and no credential is set or persisted.
C11_UnresolvedWorkflowFails ==
    EndedUnresolved =>
       /\ smPc \in {"in_workflow", "failed"}
       /\ smPc = "failed" => smErr = WorkflowFailed
       /\ nLoginReq = 1
       /\ oauth = NoCred
       /\ lastOp = "load"

C11_Witness ==
    /\ wfPc = "timed_out"
    /\ retry_attempts = 0
    /\ elapsed < Deadline
    /\ smPc = "failed"
    /\ smErr = WorkflowFailed

\* C12: refresh() against a rejection (invalid_grant, status 400) raises
\* AuthenticationError and leaves the credential held before the call as it
\* was, in memory and in the durable cache.
C12_RejectedRefreshKeepsCredential ==
    [][(smPc = "refresh_sent" /\ ~HasTokens(lastRefresh'))
          => /\ smPc' = "failed"
             /\ smErr' = RefreshFailed
             /\ oauth' = oauth
             /\ oauth' # NoCred
             /\ file' = file]_vars

C12_Witness ==
    /\ smPc = "failed"
    /\ smErr = RefreshFailed
    /\ lastRefresh.kind = "error"
    /\ oauth \in TokenSets
    /\ file.kind = "pickle"

\* what a load under the session manager's account finds in the cache now
DurableRecord == load_existing_oauth(file, account.user, account.pass, now)

\* C13: refresh() on success replaces the credential in full by the one of
\* the refresh response and persists it: the credential in memory and the
\* record in the durable cache both are the new credential, whatever the
\* account.
C13_RefreshReplacesAndPersists ==
    (HasTokens(lastRefresh) /\ smPc # "refresh_sent")
    => /\ smPc = "done"
       /\ oauth = lastRefresh.cred
       /\ DurableRecord = ResCred(lastRefresh.cred)

\* the part of C13 that holds: the credential in memory is the one of the
\* refresh response, and with account material of 32 characters or more the
\* durable record is too
RefreshReplacesInMemory ==
    (HasTokens(lastRefresh) /\ smPc # "refresh_sent")
    => /\ oauth = lastRefresh.cred
       /\ ~PersistRaises => (smPc = "done" /\ DurableRecord = ResCred(lastRefresh.cred))

\* the record in the cache is one the account can read and is not expired
CachedValid ==
    /\ file.kind = "pickle"
    /\ file.key = DeriveKey(account.user, account.pass)
    /\ file.text.parse = "literal"
    /\ ~NonConforming(file.text.val)
    /\ file.text.val.expiry.n >= IntTime(now)

\* the cache holds no record, or an expired one
CacheAbsent ==
    \/ file.kind \in {"missing", "empty"}
    \/ /\ file.kind = "pickle"
       /\ file.text.val.expiry.t = "int"
       /\ file.text.val.expiry.n < IntTime(now)

\* the first step of login(): the cache has been looked at
LoginLooksInCache == smPc = "idle" /\ smPc' # "idle" /\ lastOp' = "load"

\* C14: login() with a valid, unexpired cached credential returns that
\* credential and issues no request; a login request is issued only when the
\* cache holds no record or an expired one.
C14_CachedCredentialNoRequest ==
    [][LoginLooksInCache =>
          /\ CachedValid =>
                /\ smPc' = "done"
                /\ oauth' = file.text.val.login.cred
                /\ nLoginReq' = 0
          /\ nLoginReq' # nLoginReq => CacheAbsent]_vars

C14_Witness ==
    /\ smPc = "done"
    /\ lastOp = "load"
    /\ CachedValid
    /\ oauth = file.text.val.login.cred
    /\ oauth \in TokenSets
    /\ nLoginReq = 0

(***************************************************************************)
(* Workflow-status polling and challenge phase properties                  *)
(***************************************************************************)
\* a step that issued a 'continue' POST
StatusPolled == wfPc = "status_loop" /\ nContinue' = nContinue + 1

\* the response to the last 'continue' POST is one the budget pays for: {} or
\* a nested status other than approved and internal_pending
ConsumingResponse(res) == res[1] = "continue" /\ res[2] \in {"empty", "other"}

\* C15: the retry budget starts at 5, each budget-consuming response ({} or a
\* nested status other than approved and internal_pending) takes exactly one
\* unit and nothing else changes it, the timeout by exhaustion is raised
\* exactly by the response that takes the last unit (the fifth), and the
\* budget is within 1..5 while the loop runs.
C15_RetryBudget ==
    /\ [](nContinue = 0 => retry_attempts = 5)
    /\ [](wfPc = "status_loop" => retry_attempts \in 1..5)
    /\ [][StatusPolled =>
             /\ retry_attempts' =
                   IF ConsumingResponse(lastRes') THEN retry_attempts - 1 ELSE retry_attempts
             /\ wfPc' = "timed_out" <=> (ConsumingResponse(lastRes') /\ retry_attempts = 1)]_vars

C15_Witness ==
    /\ wfPc = "timed_out"
    /\ retry_attempts = 0
    /\ elapsed < Deadline
    /\ lastRes = <<"continue", "empty">>
    /\ nContinue > 5

\* C16: a response with nested status workflow_status_internal_pending
\* leaves the retry budget as it is and the engine polling; after it the
\* workflow ends only by the 120-second deadline (or by a later approval).
C16_PendingKeepsBudget ==
    /\ [][(StatusPolled /\ lastRes' = <<"continue", "pending">>) =>
             /\ retry_attempts' = retry_attempts
             /\ wfPc' = "status_loop"
             /\ wfErr' = wfErr]_vars
    /\ [](lastRes = <<"continue", "pending">> =>
             \/ wfPc = "status_loop"
             \/ wfPc = "timed_out" /\ elapsed >= Deadline /\ retry_attempts >= 1)

\* twenty-three 'continue' POSTs in a row, none of which took a unit of the
\* budget, up to the deadline
C16_Witness ==
    /\ wfPc = "timed_out"
    /\ lastRes = <<"continue", "pending">>
    /\ retry_attempts = RetryBudget
    /\ nContinue = 23

\* C17: a 'continue' POST that yields no parsed body takes exactly one unit
\* of the retry budget and the polling goes on after the backoff; the only
\* condition it can end the workflow with is the timeout.
C17_TransportFailureConsumesRetry ==
    [][(StatusPolled /\ lastRes' = <<"continue", "nobody">>) =>
          /\ retry_attempts' = retry_attempts - 1
          /\ elapsed' >= Min(elapsed + SleepSecs, MaxElapsed)
          /\ wfPc' \in {"status_loop", "timed_out"}]_vars

\* a step that fetched the inquiry view, a step that fetched the prompt status
InquiryPolled == wfPc = "inquiry_loop" /\ lastRes'[1] = "inquiry" /\ elapsed' # elapsed
PromptPolled == wfPc = "prompt_wait" /\ lastRes'[1] = "prompt" /\ elapsed' # elapsed

\* C18: an empty or unreachable response to the inquiry-view fetch of the
\* outer poll loop, or to the prompt-status fetch of the prompt wait, is
\* absorbed: the engine stays in that loop and polls again after 5 seconds.
C18_EmptyResponseAbsorbed ==
    [][/\ (InquiryPolled /\ lastRes'[2] \in {"empty", "nobody", "raised"}) =>
             (wfPc' = "inquiry_loop" /\ wfErr' = wfErr)
       /\ (PromptPolled /\ lastRes'[2] \in {"empty", "nobody", "raised"}) =>
             (wfPc' = "prompt_wait" /\ wfErr' = wfErr)]_vars

\* the part of C18 that holds: the inquiry-view fetch absorbs {} and a
\* response with an HTTP error status
InquiryAbsorbsEmpty ==
    [][(InquiryPolled /\ lastRes'[2] \in {"empty", "nobody"}) =>
          (wfPc' = "inquiry_loop" /\ wfErr' = wfErr)]_vars

\* C19: a registration response without "id", or a registration request that
\* yields no body, ends the workflow in WorkflowInitError before any inquiry
\* poll or 'continue' POST.
C19_RegistrationWithoutId ==
    [][(wfPc = "register" /\ lastRes' \in {<<"register", "no_id">>, <<"register", "nobody">>}) =>
          /\ wfPc' = "error"
          /\ wfErr' = "WorkflowInitError"
          /\ nContinue' = 0]_vars

\* the part of C19 that holds: the workflow ends there, no poll and no
\* 'continue' POST having been made
RegistrationWithoutIdEnds ==
    [][(wfPc = "register" /\ lastRes' \in {<<"register", "no_id">>, <<"register", "nobody">>}) =>
          /\ wfPc' = "error"
          /\ nContinue' = 0]_vars

\* a step that submitted a verification code
CodeSubmitted == wfPc = "inquiry_loop" /\ lastRes'[1] = "submit" /\ elapsed' # elapsed

\* C20: for an sms or email challenge with status 'issued' the code the user
\* typed is submitted as it is, and the submission takes the engine out of
\* the challenge phase into workflow-status polling only if its response
\* reports 'validated'; any other outcome, a submission without a body
\* included, does not.
C20_SubmissionNeedsValidated ==
    [][CodeSubmitted =>
          /\ lastRes'[4] = lastRes'[3]
          /\ wfPc' = "status_loop" <=> lastRes'[2] = "validated"
          /\ lastRes'[2] \in {"not_validated", "nobody", "raised"} =>
                wfPc' \in {"inquiry_loop", "error"}]_vars

C20_Witness ==
    /\ wfPc = "inquiry_loop"
    /\ lastRes[1] = "submit"
    /\ lastRes[2] = "not_validated"
    /\ lastRes[3] = " 12 34"
    /\ lastRes[4] = " 12 34"

\* C21: a challenge found already 'validated' is resolved at once, whatever
\* its type (sms, email, prompt): no code is solicited, no prompt-status
\* request is made, the engine goes straight to workflow-status polling.
C21_ValidatedResolvedAtOnce ==
    [][(InquiryPolled /\ lastRes'[2] \in {"validated", "prompt_validated"}) =>
          wfPc' = "status_loop"]_vars

\* the part of C21 that holds: an sms or email challenge found 'validated'
\* takes the engine to workflow-status polling, no code being submitted
ValidatedSmsEmailResolved ==
    [][(InquiryPolled /\ lastRes'[2] = "validated") => wfPc' = "status_loop"]_vars

\* C22: when the inquiry views never show a challenge (each of them a
\* non-empty body without context.sheriff_challenge), the engine still goes on
\* to workflow-status polling and issues 'continue' POSTs: the workflow does
\* not end without one having been made.
C22_NoChallengeStillPolls ==
    (inquiries = "no_challenge" /\ wfPc \in WfTerminal) => nContinue > 0

\* the part of C22 that holds: without a challenge the engine reaches the
\* workflow-status phase, at the deadline and no sooner, and ends there in
\* the timeout without a 'continue' POST
NoChallengeRunsIntoDeadline ==
    /\ (inquiries = "no_challenge" /\ wfPc = "status_loop") => elapsed >= Deadline
    /\ (inquiries = "no_challenge" /\ wfPc \in WfTerminal) =>
          (wfPc = "timed_out" /\ nContinue = 0 /\ elapsed >= Deadline)

\* C23: in workflow-status polling a received response is taken for an
\* approval if and only if its type_context.result or its nested
\* verification_workflow.workflow_status is workflow_status_approved, either
\* one being enough; the approval ends the workflow in that iteration and
\* takes no unit of the retry budget.
C23_ApprovalIffEitherSignal ==
    [][(StatusPolled /\ lastRes'[2] \notin {"raised", "nobody"}) =>
          /\ wfPc' = "approved" <=> lastRes'[2] = "approved"
          /\ lastRes'[2] = "approved" =>
                /\ Approved \in {lastRes'[3], lastRes'[4]}
                /\ retry_attempts' = retry_attempts
                /\ wfErr' = wfErr]_vars

\* a type_context with another result, the nested status approved
C23_Witness ==
    /\ wfPc = "approved"
    /\ lastRes = <<"continue", "approved", "other", Approved>>
    /\ retry_attempts < RetryBudget

\* an iteration of the outer poll loop, with or without a code submission
OuterLoopIterated ==
    wfPc = "inquiry_loop" /\ lastRes'[1] \in {"inquiry", "submit"} /\ elapsed' # elapsed

C25_ImplementationsAgree == agree

\* the part of C25 that holds: the two part only where a POST fails, the
\* transport raising something the helper of workflow.py does not catch
PartOnlyOnFailedPost ==
    [][(agree /\ ~agree') =>
          /\ lastRes'[1] \in {"register", "submit", "continue"}
          /\ lastRes'[2] \in {"raised", "nobody"}
          /\ wfPc' = "error"]_vars

====
